---------------------------- MODULE Spec2Model ----------------------------
(***************************************************************************)
(* Model of depth_anything_v2/train.py: the Trainer's epoch loop, its      *)
(* validation pass, the checkpoint writer and the Trainer's constructor,   *)
(* together with the early-stopping policy the Trainer drives.             *)
(*                                                                         *)
(* Scores are integers on a fixed scale (hundredths for the policy, so     *)
(* that delta = 0.01 is 1).  A file's content is the version of the head   *)
(* parameters it holds: the number of optimizer steps taken when written.  *)
(***************************************************************************)
EXTENDS Integers, Sequences, FiniteSets, TLC

VARIABLES
    \* ---- configuration (args, constructor arguments)
    epochs,          \* args.epochs
    es_patience,     \* EarlyStopping(patience=...)
    es_delta,        \* EarlyStopping(delta=...)
    n_train,         \* len(self.train_loader)
    val_samples,     \* len(valset)
    batch_size,      \* args.batch_size
    lossPattern,     \* which loss the model yields at each iteration
    \* ---- Trainer.train / Trainer.validation
    pc,              \* position of the run
    i,               \* epoch index of the for loop
    tb,              \* training batches consumed in this epoch
    vb,              \* validation batches consumed in this pass
    iteration,       \* global iteration counter
    avg_loss,        \* running loss accumulator
    head,            \* model.seg_head parameters (version)
    best_pred,       \* self.best_pred
    is_best,         \* validation's local is_best
    pixAcc,          \* validation's local pixAcc
    mIoU,            \* validation's local mIoU
    new_pred,        \* validation's local new_pred
    val_metric,      \* train's local val_metric
    preds,           \* validation's local _preds (sample numbers)
    targets,         \* validation's local _targets (sample numbers)
    val_it,          \* validation's parameter it
    val_e,           \* validation's parameter e
    metric_n,        \* number of self.metric.update calls
    lossLog,         \* writer.add_scalar('training loss', ...) records
    imgLog,          \* iterations at which pred/gt images were logged
    fs,              \* the checkpoint directory
    early_stopper,   \* self.early_stopper
    \* ---- history of the run
    epochsRun,       \* epochs whose body was entered
    valsDone,        \* validation passes that returned
    seen,            \* fitness scores of the earlier epochs
    trace,           \* events of the current epoch, in order
    stopEpoch,       \* 1-based epoch in which early_stop was set, 0 if none
    esObs,           \* scores the policy was fed
    fsEpochEnd,      \* the directory when the last validation pass returned
    \* ---- Trainer.__init__
    dataset,         \* args.dataset
    seg_labels,      \* names of the SegLabels members, in order
    num_classes,     \* len(trainset.classes)
    class_weights,   \* the class weight vector
    ctor,            \* outcome of the construction
    img_h,           \* image height handed to the model
    img_w,           \* image width handed to the model
    md_val,          \* make_divisible's argument val
    md_out           \* make_divisible's result

vars == << epochs, es_patience, es_delta, n_train, val_samples, batch_size,
           lossPattern, pc, i, tb, vb, iteration, avg_loss,
           head, best_pred, is_best, pixAcc, mIoU, new_pred, val_metric,
           preds, targets, val_it, val_e, metric_n, lossLog, imgLog, fs,
           early_stopper, epochsRun, valsDone, seen, trace, stopEpoch, esObs,
           fsEpochEnd, dataset, seg_labels, num_classes, class_weights, ctor,
           img_h, img_w, md_val, md_out >>

cfgVars   == << epochs, es_patience, es_delta, n_train, val_samples,
                batch_size, lossPattern >>
ctorVars  == << dataset, seg_labels, num_classes, class_weights, ctor,
                img_h, img_w, md_val, md_out >>
trainVars == << iteration, avg_loss, head, lossLog, imgLog, tb >>
valVars   == << vb, is_best, pixAcc, mIoU, new_pred, preds, targets,
                metric_n, val_it, val_e >>
histVars  == << epochsRun, valsDone, seen, trace, stopEpoch, esObs,
                fsEpochEnd >>

-----------------------------------------------------------------------------
(* Bounds of the model *)

MaxEpochs       == 12   \* largest epoch budget explored
NumTrainBatches == 2    \* len(self.train_loader)
NumValBatches   == 2    \* len(self.val_loader)
MaxPatience     == 3    \* largest patience the policy is built with
MaxDelta        == 2    \* largest delta the policy is built with
MaxObs          == 5    \* longest score sequence fed to the policy
ScoreSpan       == 2    \* scores fed to the policy: 50 - span .. 50 + span
MaxClasses      == 7    \* largest class count a dataset reports
MaxHead         == 3    \* head versions in the checkpoint-writer check
MaxCalls        == 3    \* save_checkpoint calls in the checkpoint-writer check
MaxIters        == 250  \* training iterations of the logging runs
MaxPattern      == 2    \* loss patterns of the logging runs
MaxValSamples   == 70   \* largest validation set of the validation runs
MaxDim          == 60   \* largest small dimension given to make_divisible

(* Program constants *)

Patience     == 10      \* EarlyStopping(patience=10, ...)
DeltaScaled  == 1       \* EarlyStopping(delta=0.01), in hundredths
BestPredInit == -1      \* self.best_pred = -1
LogInterval  == 100     \* iteration % 100 == 0
LogDivisor   == 100     \* avg_loss.item() / 100
PatchSize    == 14      \* make_divisible(val, divisor=14)
ImgInterval  == 500     \* iteration % 500 == 1
VisCap       == 64      \* len(_preds) < 64
BatchSize    == 6       \* --batch-size default

\* An optional value is a sequence of length at most one.
None    == << >>        \* Python's None
Some(x) == << x >>      \* a value that is present
Absent  == << >>        \* a file that does not exist

Losses     == {1}       \* scalar loss of one training batch
MetricVals == {0, 2}    \* a value metric.get() reports for pixAcc or mIoU
ESScores   == (50 - ScoreSpan) .. (50 + ScoreSpan)
LogLoaderLens == {30, 50, 100, 120}  \* len(train_loader) of the logging runs
ValBatchSizes == {6, 20}             \* args.batch_size of the validation runs
DivInputs  == (0 .. MaxDim) \cup {480, 640, 1072, 608}

-----------------------------------------------------------------------------
(* save_checkpoint *)

\* variant: the latest file is written only for a best epoch
SaveCheckpointBestOnly(f, params, isb) ==
    IF isb
    THEN [f EXCEPT !.dir = TRUE, !.latest = Some(params), !.nLatest = @ + 1,
                   !.best = Some(params), !.nBest = @ + 1]
    ELSE [f EXCEPT !.dir = TRUE]

\* variant: the copy is made whatever the flag
SaveCheckpointAlwaysCopy(f, params, isb) ==
    [f EXCEPT !.dir = TRUE, !.latest = Some(params), !.nLatest = @ + 1,
              !.best = Some(params), !.nBest = @ + 1]

SaveCheckpoint(f, params, isb) ==
    LET written == [f EXCEPT !.dir = TRUE,            \* os.makedirs
                             !.latest = Some(params), \* torch.save
                             !.nLatest = @ + 1]
    IN  IF isb
        THEN [written EXCEPT !.best = written.latest, \* shutil.copyfile
                             !.nBest = @ + 1]
        ELSE written

EmptyDir == [dir |-> FALSE, latest |-> Absent, best |-> Absent,
             nLatest |-> 0, nBest |-> 0]

-----------------------------------------------------------------------------
(* EarlyStopping: the policy object *)

ESNew == [best_score |-> None, counter |-> 0, early_stop |-> FALSE]

ESImproved(st, observed) ==
    [best_score |-> observed, counter |-> 0, early_stop |-> st.early_stop]

\* variant: stop as soon as the counter reaches the patience
ESNotImprovedAtPatience(st, P) ==
    [best_score |-> st.best_score, counter |-> st.counter + 1,
     early_stop |-> st.early_stop \/ st.counter + 1 >= P]

ESNotImproved(st, P) ==
    [best_score |-> st.best_score, counter |-> st.counter + 1,
     early_stop |-> st.early_stop \/ st.counter + 1 > P]

\* variant: an improvement must exceed the best by more than delta + 1
ESCallWiderDelta(st, P, D, score) ==
    IF st.best_score = None \/ score > st.best_score[1] + D + 1
    THEN ESImproved(st, Some(score))
    ELSE ESNotImproved(st, P)

ESCall(st, P, D, score) ==
    IF st.best_score = None \/ score > st.best_score[1] + D
    THEN ESImproved(st, Some(score))
    ELSE ESNotImproved(st, P)

\* The policy is defined on scores.  Fed a value that is no score, it may take
\* either of its transitions (or raise, see EarlyStopRaise).
ESOutcomes(st, P, D, v) ==
    IF v = None
    THEN {ESImproved(st, None), ESNotImproved(st, P)}
    ELSE {ESCall(st, P, D, v[1])}

-----------------------------------------------------------------------------
(* make_divisible *)

\* variant: rounds up to the next multiple
MakeDivisibleUp(val, divisor) == val + (divisor - (val % divisor))

\* val - (val % divisor)
MakeDivisible(val, divisor) == val - (val % divisor)

-----------------------------------------------------------------------------
(* Trainer.__init__: the class weight vector *)

KnownLabels == << "BACKGROUND", "HEAD", "BASEPLATE", "PREVIOUS_PART",
                  "CURRENT_PART", "WELD_FLASH" >>

\* the match statement: weight in tenths, nothing for an unmatched name
WeightOf(name) ==
    CASE name = "BACKGROUND"    -> << 1 >>
      [] name = "HEAD"          -> << 1 >>
      [] name = "BASEPLATE"     -> << 1 >>
      [] name = "PREVIOUS_PART" -> << 1 >>
      [] name = "CURRENT_PART"  -> << 5 >>
      [] name = "WELD_FLASH"    -> << 1 >>
      [] OTHER                  -> << >>

RECURSIVE ClassWeights(_)
ClassWeights(labels) ==
    IF labels = << >> THEN << >>
    ELSE WeightOf(Head(labels)) \o ClassWeights(Tail(labels))

\* enumerations explored: a prefix of the known names, possibly followed by a
\* member the match has no case for
LabelLists ==
    { SubSeq(KnownLabels, 1, n) \o extra :
        n \in 0 .. Len(KnownLabels), extra \in { << >>, << "UNLABELED" >> } }

KnownDatasets == {"nyu", "ml4ded"}

-----------------------------------------------------------------------------
(* Trainer.train and Trainer.validation *)

\* len(self.val_loader): the last batch may be short
NumBatches(samples, bs) == (samples + bs - 1) \div bs

\* the sample numbers of validation batch k (0-based), in loader order
BatchIds(k) ==
    LET first == k * batch_size
        len   == IF val_samples - first < batch_size
                 THEN val_samples - first ELSE batch_size
    IN  [j \in 1 .. len |-> first + j]

\* variant: the cap is tested with <=
RECURSIVE CollectOneMore(_, _, _)
CollectOneMore(ps, ts, ids) ==
    IF ids = << >> THEN << ps, ts >>
    ELSE IF Len(ps) <= VisCap
         THEN CollectOneMore(Append(ps, Head(ids)), Append(ts, Head(ids)),
                             Tail(ids))
         ELSE CollectOneMore(ps, ts, Tail(ids))

\* the per-sample loop of a validation batch: while _preds has fewer than 64
\* entries, append the sample's prediction to _preds and its target to
\* _targets
RECURSIVE Collect(_, _, _)
Collect(ps, ts, ids) ==
    IF ids = << >> THEN << ps, ts >>
    ELSE IF Len(ps) < VisCap
         THEN Collect(Append(ps, Head(ids)), Append(ts, Head(ids)), Tail(ids))
         ELSE Collect(ps, ts, Tail(ids))

\* the scalar loss of iteration k under loss pattern p
LossAt(p, k) == (p * k) % 3

\* variant: the log is due one iteration late
LogDueLate(it) == it % LogInterval = 1

\* iteration % 100 == 0
LogDue(it) == it % LogInterval = 0

\* variant: the per-epoch batch number is passed as it
ValidationArgsPerEpoch == << tb, i >>

\* self.validation(iteration, i)
ValidationArgs == << iteration, i >>

\* (pixAcc + mIoU) / 2
Fitness(acc, iou) == (acc + iou) \div 2

\* variant: a tie counts as a new best
BeatsBestOrTies(score, best) == score >= best

\* variant: the comparison is the wrong way round
BeatsBestReversed(score, best) == score < best

\* variant: only a score more than one above the best counts
BeatsBestByMargin(score, best) == score > best + 1

\* new_pred > self.best_pred
BeatsBest(score, best) == score > best

\* variant: the range includes its upper end
InRangeInclusive(k, n) == k <= n

\* k in range(n)
InRange(k, n) == k < n

\* variant: the training loop is left after its first batch
TrainLoaderDoneEarly == tb >= 1

\* the training loader is exhausted
TrainLoaderDone == tb = n_train

\* the validation loader is exhausted
ValLoaderDone == vb = NumBatches(val_samples, batch_size)

\* what validation hands back to train: the function has no return statement
ValidationReturn(score) == None

\* variant: the flag is not acted on
BreakOnStopNever(st) == FALSE

\* if self.early_stopper.early_stop: break
BreakOnStop(st) == st.early_stop

TrainerInit ==
    /\ i = 0 /\ tb = 0 /\ vb = 0
    /\ iteration = 0 /\ avg_loss = 0 /\ head = 0
    /\ best_pred = BestPredInit
    /\ is_best = FALSE /\ pixAcc = 0 /\ mIoU = 0 /\ new_pred = 0
    /\ val_metric = None /\ metric_n = 0
    /\ preds = << >> /\ targets = << >> /\ val_it = 0 /\ val_e = 0
    /\ lossLog = << >> /\ imgLog = << >>
    /\ early_stopper = ESNew
    /\ epochsRun = 0 /\ valsDone = 0 /\ seen = {} /\ trace = << >>
    /\ stopEpoch = 0 /\ esObs = << >> /\ fsEpochEnd = EmptyDir

\* the loaders of the default run
LoaderDefault ==
    /\ n_train = NumTrainBatches
    /\ batch_size = BatchSize
    /\ val_samples = NumValBatches * BatchSize
    /\ lossPattern = 0

CtorIdle ==
    /\ dataset = "ml4ded" /\ seg_labels = KnownLabels
    /\ num_classes = Len(KnownLabels)
    /\ class_weights = ClassWeights(KnownLabels) /\ ctor = "ok"
    /\ img_h = MakeDivisible(1072, PatchSize)
    /\ img_w = MakeDivisible(608, PatchSize)
    /\ md_val = 0 /\ md_out = None

Init ==
    /\ epochs \in 1 .. MaxEpochs
    /\ es_patience = Patience /\ es_delta = DeltaScaled
    /\ LoaderDefault
    /\ fs = EmptyDir
    /\ pc = "loop"
    /\ TrainerInit
    /\ CtorIdle

\* variant: the accumulator is cleared when an epoch starts
EpochStartResetting ==
    /\ pc = "loop" /\ InRange(i, epochs)
    /\ pc' = "train" /\ tb' = 0
    /\ avg_loss' = 0
    /\ epochsRun' = epochsRun + 1 /\ trace' = << >>
    /\ UNCHANGED << cfgVars, ctorVars, i, iteration, head, lossLog,
                    imgLog, valVars, best_pred, val_metric, fs, early_stopper,
                    valsDone, seen, stopEpoch, esObs, fsEpochEnd >>

\* for i in range(args.epochs): the body is entered
EpochStart ==
    /\ pc = "loop" /\ InRange(i, epochs)
    /\ pc' = "train" /\ tb' = 0
    /\ epochsRun' = epochsRun + 1 /\ trace' = << >>
    /\ UNCHANGED << cfgVars, ctorVars, i, iteration, avg_loss, head, lossLog,
                    imgLog, valVars, best_pred, val_metric, fs, early_stopper,
                    valsDone, seen, stopEpoch, esObs, fsEpochEnd >>

\* the range is exhausted: train returns
LoopExit ==
    /\ pc = "loop" /\ ~InRange(i, epochs)
    /\ pc' = "done"
    /\ UNCHANGED << cfgVars, ctorVars, i, trainVars, valVars, best_pred,
                    val_metric, fs, early_stopper, histVars >>

\* one training batch
TrainBatch(loss) ==
    /\ pc = "train" /\ ~TrainLoaderDone
    /\ LET it  == iteration + 1
           acc == avg_loss + loss
       IN  /\ iteration' = it
           /\ head' = head + 1                        \* optimizer.step()
           /\ IF LogDue(it)
              THEN /\ lossLog' = Append(lossLog, << it, acc, LogDivisor >>)
                   /\ avg_loss' = 0
              ELSE /\ lossLog' = lossLog
                   /\ avg_loss' = acc
           /\ imgLog' = IF it % ImgInterval = 1 THEN Append(imgLog, it)
                        ELSE imgLog
    /\ tb' = tb + 1
    /\ trace' = Append(trace, "train")
    /\ UNCHANGED << cfgVars, ctorVars, pc, i, valVars, best_pred, val_metric,
                    fs, early_stopper, epochsRun, valsDone, seen, stopEpoch,
                    esObs, fsEpochEnd >>

\* an exception in a training batch ends the process
TrainAbort ==
    /\ pc = "train" /\ ~TrainLoaderDone
    /\ pc' = "aborted"
    /\ UNCHANGED << cfgVars, ctorVars, i, trainVars, valVars, best_pred,
                    val_metric, fs, early_stopper, histVars >>

\* variant: the checkpoint is written when validation starts
ValidationBeginSaving ==
    /\ pc = "train" /\ TrainLoaderDone
    /\ pc' = "val" /\ vb' = 0
    /\ val_it' = ValidationArgs[1] /\ val_e' = ValidationArgs[2]
    /\ is_best' = FALSE
    /\ preds' = << >> /\ targets' = << >>
    /\ pixAcc' = 0 /\ mIoU' = 0
    /\ fs' = [fs EXCEPT !.dir = TRUE, !.latest = Some(head)]
    /\ UNCHANGED << cfgVars, ctorVars, i, trainVars, new_pred, metric_n,
                    best_pred, val_metric, early_stopper, histVars >>

\* variant: the metric is reset when validation starts
ValidationBeginResetting ==
    /\ pc = "train" /\ TrainLoaderDone
    /\ pc' = "val" /\ vb' = 0
    /\ val_it' = ValidationArgs[1] /\ val_e' = ValidationArgs[2]
    /\ is_best' = FALSE
    /\ preds' = << >> /\ targets' = << >>
    /\ pixAcc' = 0 /\ mIoU' = 0
    /\ metric_n' = 0
    /\ UNCHANGED << cfgVars, ctorVars, i, trainVars, new_pred,
                    best_pred, val_metric, fs, early_stopper, histVars >>

\* self.validation(iteration, i) is entered
ValidationBegin ==
    /\ pc = "train" /\ TrainLoaderDone
    /\ pc' = "val" /\ vb' = 0
    /\ val_it' = ValidationArgs[1] /\ val_e' = ValidationArgs[2]
    /\ is_best' = FALSE
    /\ preds' = << >> /\ targets' = << >>
    /\ pixAcc' = 0 /\ mIoU' = 0
    /\ UNCHANGED << cfgVars, ctorVars, i, trainVars, new_pred, metric_n,
                    best_pred, val_metric, fs, early_stopper, histVars >>

\* one validation batch: update the metric, re-read it, collect images
ValBatch(acc, iou) ==
    /\ pc = "val" /\ ~ValLoaderDone
    /\ metric_n' = metric_n + 1
    /\ pixAcc' = acc /\ mIoU' = iou
    /\ LET got == Collect(preds, targets, BatchIds(vb))
       IN  preds' = got[1] /\ targets' = got[2]
    /\ vb' = vb + 1
    /\ trace' = Append(trace, "val")
    /\ UNCHANGED << cfgVars, ctorVars, pc, i, trainVars, is_best, new_pred,
                    val_it, val_e, best_pred, val_metric, fs, early_stopper,
                    epochsRun, valsDone, seen, stopEpoch, esObs, fsEpochEnd >>

\* an exception in a validation batch ends the process
ValAbort ==
    /\ pc = "val" /\ ~ValLoaderDone
    /\ pc' = "aborted"
    /\ UNCHANGED << cfgVars, ctorVars, i, trainVars, valVars, best_pred,
                    val_metric, fs, early_stopper, histVars >>

\* the end of validation: score, best-score rule, checkpoint, return
ValidationEnd ==
    /\ pc = "val" /\ ValLoaderDone
    /\ LET score == Fitness(pixAcc, mIoU)
           isb   == BeatsBest(score, best_pred)
       IN  /\ new_pred' = score
           /\ is_best' = isb
           /\ best_pred' = IF isb THEN score ELSE best_pred
           /\ fs' = SaveCheckpoint(fs, head, isb)
           /\ fsEpochEnd' = SaveCheckpoint(fs, head, isb)
           /\ val_metric' = ValidationReturn(score)
           /\ seen' = seen \cup {score}
    /\ pixAcc' = 0 /\ mIoU' = 0
    /\ valsDone' = valsDone + 1
    /\ trace' = Append(trace, "ckpt")
    /\ pc' = "check"
    /\ UNCHANGED << cfgVars, ctorVars, i, trainVars, vb, preds, targets,
                    val_it, val_e, metric_n, early_stopper, epochsRun,
                    stopEpoch, esObs >>

\* self.early_stopper(val_metric); break when the flag is set
EarlyStopCheck ==
    /\ pc = "check"
    /\ \E st \in ESOutcomes(early_stopper, es_patience, es_delta, val_metric) :
          /\ early_stopper' = st
          /\ IF BreakOnStop(st)
             THEN /\ pc' = "done" /\ i' = i
                  /\ stopEpoch' = IF early_stopper.early_stop THEN stopEpoch
                                  ELSE i + 1
             ELSE /\ pc' = "loop" /\ i' = i + 1
                  /\ stopEpoch' = IF st.early_stop /\ ~early_stopper.early_stop
                                  THEN i + 1 ELSE stopEpoch
    /\ esObs' = Append(esObs, val_metric)
    /\ trace' = Append(trace, "stopcheck")
    /\ UNCHANGED << cfgVars, ctorVars, trainVars, valVars, best_pred,
                    val_metric, fs, epochsRun, valsDone, seen, fsEpochEnd >>

\* the policy raises on a value that is no score
EarlyStopRaise ==
    /\ pc = "check" /\ val_metric = None
    /\ pc' = "aborted"
    /\ UNCHANGED << cfgVars, ctorVars, i, trainVars, valVars, best_pred,
                    val_metric, fs, early_stopper, histVars >>

Next ==
    \/ EpochStart
    \/ LoopExit
    \/ \E loss \in Losses : TrainBatch(loss)
    \/ TrainAbort
    \/ ValidationBegin
    \/ \E acc \in MetricVals, iou \in MetricVals : ValBatch(acc, iou)
    \/ ValAbort
    \/ ValidationEnd
    \/ EarlyStopCheck
    \/ EarlyStopRaise

Spec == Init /\ [][Next]_vars

-----------------------------------------------------------------------------
(* The early-stopping policy on its own, fed arbitrary score sequences *)

InitES ==
    /\ epochs = 1
    /\ es_patience \in 0 .. MaxPatience
    /\ es_delta \in 0 .. MaxDelta
    /\ LoaderDefault
    /\ fs = EmptyDir
    /\ pc = "policy"
    /\ TrainerInit
    /\ CtorIdle

\* self.early_stopper(score)
ESObserve(score) ==
    /\ pc = "policy" /\ Len(esObs) < MaxObs
    /\ early_stopper' = ESCall(early_stopper, es_patience, es_delta, score)
    /\ esObs' = Append(esObs, Some(score))
    /\ UNCHANGED << cfgVars, ctorVars, pc, i, trainVars, valVars, best_pred,
                    val_metric, fs, epochsRun, valsDone, seen, trace,
                    stopEpoch, fsEpochEnd >>

NextES == \E score \in ESScores : ESObserve(score)

SpecES == InitES /\ [][NextES]_vars

-----------------------------------------------------------------------------
(* save_checkpoint on its own, called on arbitrary directories *)

FileStates == {Absent} \cup { Some(v) : v \in 0 .. MaxHead }

CkptDirs ==
    {EmptyDir} \cup
    { [dir |-> TRUE, latest |-> l, best |-> b, nLatest |-> 0, nBest |-> 0] :
        l \in FileStates, b \in FileStates }

InitCkpt ==
    /\ epochs = 1
    /\ es_patience = Patience /\ es_delta = DeltaScaled
    /\ LoaderDefault
    /\ fs \in CkptDirs
    /\ pc = "ckpt"
    /\ TrainerInit
    /\ CtorIdle

\* save_checkpoint(model, args, isb)
CkptSave(isb) ==
    /\ pc = "ckpt" /\ fs.nLatest < MaxCalls
    /\ fs' = SaveCheckpoint(fs, head, isb)
    /\ is_best' = isb
    /\ UNCHANGED << cfgVars, ctorVars, pc, i, trainVars, vb, pixAcc, mIoU,
                    new_pred, preds, targets, val_it, val_e, metric_n,
                    best_pred, val_metric, early_stopper, histVars >>

\* the head's parameters change between calls
CkptTrain ==
    /\ pc = "ckpt" /\ head < MaxHead
    /\ head' = head + 1
    /\ UNCHANGED << cfgVars, ctorVars, pc, i, tb, iteration, avg_loss, lossLog,
                    imgLog, valVars, best_pred, val_metric, fs, early_stopper,
                    histVars >>

NextCkpt ==
    \/ \E isb \in BOOLEAN : CkptSave(isb)
    \/ CkptTrain

SpecCkpt == InitCkpt /\ [][NextCkpt]_vars

-----------------------------------------------------------------------------
(* Trainer.__init__ on arbitrary datasets and label enumerations *)

InitCtor ==
    /\ epochs = 1
    /\ es_patience = Patience /\ es_delta = DeltaScaled
    /\ LoaderDefault
    /\ fs = EmptyDir
    /\ pc = "init"
    /\ TrainerInit
    /\ dataset \in KnownDatasets \cup {"other"}
    /\ seg_labels \in LabelLists
    /\ num_classes \in 1 .. MaxClasses
    /\ class_weights = << >>
    /\ ctor = "new"
    /\ img_h = 0 /\ img_w = 0
    /\ md_val = 0 /\ md_out = None

\* raise ValueError(f"Unknown dataset {args.dataset}")
ConstructUnknownDataset ==
    /\ ctor = "new" /\ dataset \notin KnownDatasets
    /\ ctor' = "ValueError"
    /\ UNCHANGED << cfgVars, dataset, seg_labels, num_classes, class_weights,
                    img_h, img_w, md_val, md_out,
                    pc, i, trainVars, valVars, best_pred, val_metric, fs,
                    early_stopper, histVars >>

\* the model and the metric get num_classes, the loss the weight vector
Construct ==
    /\ ctor = "new" /\ dataset \in KnownDatasets
    /\ IF dataset = "nyu"
       THEN /\ img_h' = MakeDivisible(480, PatchSize)
            /\ img_w' = MakeDivisible(640, PatchSize)
       ELSE /\ img_h' = MakeDivisible(1072, PatchSize)
            /\ img_w' = MakeDivisible(608, PatchSize)
    /\ class_weights' = ClassWeights(seg_labels)
    /\ ctor' = "ok"
    /\ UNCHANGED << cfgVars, dataset, seg_labels, num_classes, md_val, md_out,
                    pc, i, trainVars, valVars, best_pred, val_metric, fs,
                    early_stopper, histVars >>

NextCtor ==
    \/ ConstructUnknownDataset
    \/ Construct

SpecCtor == InitCtor /\ [][NextCtor]_vars

-----------------------------------------------------------------------------
(* Runs of the Trainer without exceptions, with the losses of a pattern *)

NextRun ==
    \/ EpochStart
    \/ LoopExit
    \/ TrainBatch(LossAt(lossPattern, iteration + 1))
    \/ ValidationBegin
    \/ \E acc \in MetricVals, iou \in MetricVals : ValBatch(acc, iou)
    \/ ValidationEnd
    \/ EarlyStopCheck

\* long runs: enough epochs for MaxIters iterations, one validation batch
InitLog ==
    /\ n_train \in LogLoaderLens
    /\ lossPattern \in 0 .. MaxPattern
    /\ epochs = NumBatches(MaxIters, n_train)
    /\ batch_size = BatchSize /\ val_samples = BatchSize
    /\ es_patience = Patience /\ es_delta = DeltaScaled
    /\ fs = EmptyDir
    /\ pc = "loop"
    /\ TrainerInit
    /\ CtorIdle

SpecLog == InitLog /\ [][NextRun]_vars

\* runs with validation sets of every size up to MaxValSamples
InitVal ==
    /\ n_train = 1 /\ lossPattern = 1
    /\ epochs \in 1 .. 2
    /\ batch_size \in ValBatchSizes
    /\ val_samples \in 1 .. MaxValSamples
    /\ es_patience = Patience /\ es_delta = DeltaScaled
    /\ fs = EmptyDir
    /\ pc = "loop"
    /\ TrainerInit
    /\ CtorIdle

SpecVal == InitVal /\ [][NextRun]_vars

-----------------------------------------------------------------------------
(* make_divisible on its own *)

InitDiv ==
    /\ epochs = 1
    /\ es_patience = Patience /\ es_delta = DeltaScaled
    /\ LoaderDefault
    /\ fs = EmptyDir
    /\ pc = "div"
    /\ TrainerInit
    /\ dataset = "ml4ded" /\ seg_labels = KnownLabels
    /\ num_classes = Len(KnownLabels)
    /\ class_weights = << >> /\ ctor = "new"
    /\ img_h = 0 /\ img_w = 0
    /\ md_val \in DivInputs /\ md_out = None

\* make_divisible(val)
MakeDivisibleCall ==
    /\ pc = "div" /\ md_out = None
    /\ md_out' = Some(MakeDivisible(md_val, PatchSize))
    /\ UNCHANGED << cfgVars, dataset, seg_labels, num_classes, class_weights,
                    ctor, img_h, img_w, md_val,
                    pc, i, trainVars, valVars, best_pred, val_metric, fs,
                    early_stopper, histVars >>

NextDiv == MakeDivisibleCall

SpecDiv == InitDiv /\ [][NextDiv]_vars

-----------------------------------------------------------------------------
(* The best-score rule and the early-stopping policy fed the same scores *)

InitPair ==
    /\ epochs = 1
    /\ es_patience \in 0 .. MaxPatience
    /\ es_delta \in 0 .. MaxDelta
    /\ LoaderDefault
    /\ fs = EmptyDir
    /\ pc = "pair"
    /\ TrainerInit
    /\ CtorIdle

\* one epoch's score: lines 198-201 of validation, then the policy's call
PairObserve(score) ==
    /\ pc = "pair" /\ Len(esObs) < MaxObs
    /\ LET isb == BeatsBest(score, best_pred)
       IN  /\ new_pred' = score
           /\ is_best' = isb
           /\ best_pred' = IF isb THEN score ELSE best_pred
           /\ fs' = SaveCheckpoint(fs, head, isb)
    /\ seen' = seen \cup {score}
    /\ early_stopper' = ESCall(early_stopper, es_patience, es_delta, score)
    /\ esObs' = Append(esObs, Some(score))
    /\ UNCHANGED << cfgVars, ctorVars, pc, i, trainVars, vb, pixAcc, mIoU,
                    preds, targets, val_it, val_e, metric_n, val_metric,
                    epochsRun, valsDone, trace, stopEpoch, fsEpochEnd >>

NextPair == \E score \in ESScores : PairObserve(score)

SpecPair == InitPair /\ [][NextPair]_vars

-----------------------------------------------------------------------------
(* Properties *)

Count(seq, e) == Cardinality({ k \in DOMAIN seq : seq[k] = e })

\* C1: train enters at most epochs epoch bodies; once the policy has set its
\* stop flag at the end of epoch k the number entered is exactly k (and the
\* run is over); a run that returns without the flag has entered exactly
\* epochs of them.
EpochBudgetRespected ==
    /\ epochsRun <= epochs
    /\ stopEpoch > 0 => (pc = "done" /\ epochsRun = stopEpoch
                         /\ stopEpoch <= epochs)
    /\ (pc = "done" /\ stopEpoch = 0) => epochsRun = epochs

\* C1 witness: the run stopped early, before its budget was used up
StoppedBeforeBudget ==
    pc = "done" /\ stopEpoch > 0 /\ epochsRun < epochs

\* C2: when the early-stopping policy is about to be called, the value train
\* holds for it is the fitness score validation computed for that epoch.
ScorePassedToPolicy ==
    pc = "check" => val_metric = Some(new_pred)

\* C3: the latest file has been written once per validation pass that
\* returned, which is once per epoch that completed training and validation:
\* one fewer than the epochs entered while the current epoch is still
\* training or validating, and as many as the epochs entered afterwards.
OneLatestWritePerEpoch ==
    /\ fs.nLatest = valsDone
    /\ pc \in {"train", "val"} => fs.nLatest = epochsRun - 1
    /\ pc \in {"loop", "check", "done"} => fs.nLatest = epochsRun
    /\ pc = "aborted" => fs.nLatest \in {epochsRun - 1, epochsRun}

\* C3 witness: the third epoch is in the middle of its training batches and
\* the latest file has been written twice
TwoWritesMidTraining ==
    pc = "train" /\ tb >= 1 /\ epochsRun = 3 /\ fs.nLatest = 2

\* C4: a step that writes the best file is one in which the epoch's fitness
\* score is strictly greater than the score of every earlier epoch.
BestOnlyOnStrictImprovement ==
    [][fs'.nBest # fs.nBest => \A s \in seen : new_pred' > s]_vars

\* C4 witness: the third epoch wrote the best file, and one of the two
\* epochs before it did not
BestWrittenAgain ==
    pc = "check" /\ is_best /\ valsDone = 3 /\ fs.nBest = 2

\* C5: a call of save_checkpoint leaves the directory present and the latest
\* file holding the head's parameters; with is_best false the best file is
\* unchanged in existence and content; with is_best true the best file
\* exists afterwards and its content equals the latest file's.
SaveCheckpointEffect ==
    [][fs'.nLatest # fs.nLatest =>
         /\ fs'.dir /\ fs'.latest = Some(head)
         /\ ~is_best' => (fs'.best = fs.best /\ fs'.nBest = fs.nBest)
         /\ is_best' => (fs'.best # Absent /\ fs'.best = fs'.latest
                         /\ fs'.nBest = fs.nBest + 1)]_vars

\* C5 witness: a call with is_best true was followed, after the head
\* changed, by a call with is_best false, and the best file kept the older
\* content
BestKeptByPlainSave ==
    /\ pc = "ckpt" /\ ~is_best /\ fs.nLatest = 2 /\ fs.nBest = 1
    /\ fs.best # Absent /\ fs.best # fs.latest

IsConstant(seq) == \A a, b \in DOMAIN seq : seq[a] = seq[b]

\* C6: fed one score over and over, the policy has set its stop flag exactly
\* when more than patience non-improving observations followed the first
\* one: it is still running after patience of them and stopped from the
\* (patience + 1)-th on.
ConstantScoresStopAfterPatience ==
    (esObs # << >> /\ IsConstant(esObs)) =>
        (early_stopper.early_stop <=> Len(esObs) - 1 > es_patience)

\* C6 witness: 0.50 four times with patience 2 and delta 0.01, stopped
HalfFourTimesStopped ==
    /\ pc = "policy" /\ es_patience = 2 /\ es_delta = 1
    /\ esObs = << Some(50), Some(50), Some(50), Some(50) >>
    /\ early_stopper.early_stop /\ early_stopper.counter = 3

IncreasingByMoreThan(seq, d) ==
    \A k \in DOMAIN seq : k > 1 => seq[k][1] > seq[k - 1][1] + d

\* C7 as claimed: fed a strictly increasing score sequence, the policy never
\* sets its stop flag.
StrictlyIncreasingNeverStops ==
    (pc = "policy" /\ IncreasingByMoreThan(esObs, 0)) =>
        ~early_stopper.early_stop

\* C7: fed a score sequence in which every score exceeds the one before it
\* by more than delta, the policy never sets its stop flag.
IncreasingByMoreThanDeltaNeverStops ==
    (pc = "policy" /\ IncreasingByMoreThan(esObs, es_delta)) =>
        ~early_stopper.early_stop

\* C7 witness: three scores, each more than a positive delta above the one
\* before, with patience 0, and the policy still running
ThreeImprovementsStillRunning ==
    /\ pc = "policy" /\ Len(esObs) = 3 /\ es_delta >= 1 /\ es_patience = 0
    /\ IncreasingByMoreThan(esObs, es_delta)
    /\ ~early_stopper.early_stop /\ early_stopper.counter = 0

\* C8: once the stop flag is set the run is over, with the latest file
\* written once for each epoch up to and including the stopping one, and no
\* step after that trains a batch, validates or writes a checkpoint.
StoppedIsTerminal ==
    /\ [](early_stopper.early_stop =>
            (pc = "done" /\ stopEpoch = epochsRun /\ fs.nLatest = stopEpoch
             /\ valsDone = stopEpoch))
    /\ [][early_stopper.early_stop =>
            (iteration' = iteration /\ metric_n' = metric_n /\ fs' = fs
             /\ valsDone' = valsDone /\ epochsRun' = epochsRun)]_vars

\* C8 witness: the flag was set in an epoch before the last of the budget
\* and that epoch's checkpoint is on disk
StoppedWithCheckpoint ==
    /\ early_stopper.early_stop /\ stopEpoch < epochs
    /\ fs.nLatest = stopEpoch /\ fs.latest = Some(head)

ClaimedRank(e) ==
    CASE e = "train" -> 1 [] e = "val" -> 2 [] e = "stopcheck" -> 3
      [] e = "ckpt" -> 4

CodeRank(e) ==
    CASE e = "train" -> 1 [] e = "val" -> 2 [] e = "ckpt" -> 3
      [] e = "stopcheck" -> 4

InRankOrder(seq, Rank(_)) ==
    \A a, b \in DOMAIN seq : a < b => Rank(seq[a]) <= Rank(seq[b])

\* C9 as claimed: within an epoch the events come in the order training
\* batches, validation batches, early-stopping check, checkpoint write: the
\* checkpoint is written after the epoch's early-stopping check.
EpochOrderAsClaimed ==
    /\ InRankOrder(trace, ClaimedRank)
    /\ Count(trace, "val") > 0 => Count(trace, "train") = NumTrainBatches
    /\ Count(trace, "stopcheck") > 0 => Count(trace, "val") = NumValBatches
    /\ Count(trace, "ckpt") > 0 => Count(trace, "stopcheck") = 1
    /\ Count(trace, "ckpt") <= 1 /\ Count(trace, "stopcheck") <= 1

\* C9: within an epoch the events come in the order: all training batches,
\* all validation batches, the checkpoint write (made at the end of the
\* validation pass), the early-stopping check.
EpochOrderInCode ==
    /\ InRankOrder(trace, CodeRank)
    /\ Count(trace, "val") > 0 => Count(trace, "train") = NumTrainBatches
    /\ Count(trace, "ckpt") > 0 => Count(trace, "val") = NumValBatches
    /\ Count(trace, "stopcheck") > 0 => Count(trace, "ckpt") = 1
    /\ Count(trace, "ckpt") <= 1 /\ Count(trace, "stopcheck") <= 1

\* C9 witness: a whole epoch has run, past the first one
WholeEpochTraced ==
    /\ epochsRun >= 2
    /\ Len(trace) = NumTrainBatches + NumValBatches + 2
    /\ trace[Len(trace)] = "stopcheck"

\* C10: a construction that succeeds has a class weight vector of the length
\* the model and the metric were given as class count (a mismatch fails the
\* construction).
WeightsMatchClassCount ==
    ctor = "ok" => Len(class_weights) = num_classes

SetMax(S) == CHOOSE x \in S : \A y \in S : x >= y

\* C11: the best-prediction score is -1 at the start and is always the
\* maximum of -1 and the fitness scores of the validation passes that have
\* returned; no step decreases it, and only the step that ends a validation
\* pass changes it.
BestPredIsRunningMax ==
    /\ [](best_pred = SetMax({BestPredInit} \cup seen))
    /\ [](valsDone = 0 => best_pred = -1)
    /\ [][/\ best_pred' >= best_pred
          /\ best_pred' # best_pred => (pc = "val" /\ pc' = "check")]_vars

\* C11 witness: a third epoch scored below the best of the first two, which
\* was itself reached in two steps, and the best score stayed
LowerScoreKeepsBest ==
    /\ pc = "check" /\ valsDone = 3 /\ fs.nBest = 2
    /\ new_pred < best_pred /\ ~is_best

\* C12: the training-loss records are those of the iterations 100, 200, ...
\* reached so far and of no other iteration (two of them, at 100 and 200,
\* when 250 iterations have run, whatever the loader's length), and a step
\* that emits a record leaves the accumulator at zero.
LogCadence ==
    /\ [](/\ Len(lossLog) = iteration \div 100
          /\ \A k \in DOMAIN lossLog : lossLog[k][1] = 100 * k
          /\ iteration = 250 =>
                 (Len(lossLog) = 2 /\ lossLog[1][1] = 100
                  /\ lossLog[2][1] = 200))
    /\ [][lossLog' # lossLog =>
            (avg_loss' = 0 /\ iteration' % 100 = 0 /\ iteration' > 0
             /\ Len(lossLog') = Len(lossLog) + 1)]_vars

\* C12 witness: 250 iterations have run in epochs of 30 batches, with
\* non-zero losses accumulated since the second record
TwoRecordsAt250 ==
    /\ iteration = 250 /\ n_train = 30 /\ Len(lossLog) = 2
    /\ lossPattern = 1 /\ avg_loss > 0

\* C13: the iteration counter is 0 before the first batch, every step leaves
\* it alone or adds exactly 1 to it while consuming one training batch, and
\* in epoch i it stands at i full loaders plus the batches consumed in the
\* epoch; the validation pass of epoch i is handed the number of training
\* batches of the epochs 0..i as it and i as e.
IterationCountsBatches ==
    /\ [](epochsRun = 0 => iteration = 0)
    /\ [](pc \in {"train", "val", "check"} => iteration = i * n_train + tb)
    /\ [](pc \in {"val", "check"} =>
            (val_it = (i + 1) * n_train /\ val_e = i /\ val_it = head))
    /\ [][\/ iteration' = iteration /\ tb' \in {tb, 0}
          \/ iteration' = iteration + 1 /\ tb' = tb + 1]_vars

\* C13 witness: the validation pass of the third epoch is running
ThirdValidationArgs ==
    /\ pc = "val" /\ i = 2 /\ vb = 1
    /\ val_e = 2 /\ val_it = 3 * n_train /\ n_train > 1

\* C14: when the run has died of an exception in the training or validation
\* batches of an epoch after the first, the latest file holds the head
\* parameters as they were at the end of the previous epoch's training, and
\* both files are as the previous epoch's validation pass left them.
AbortKeepsLastCheckpoint ==
    (pc = "aborted" /\ epochsRun >= 2 /\ valsDone = epochsRun - 1) =>
        /\ fs.latest = Some((epochsRun - 1) * n_train)
        /\ fs.latest = fsEpochEnd.latest
        /\ fs.best = fsEpochEnd.best
        /\ fs.nLatest = epochsRun - 1

\* C14 witness: the third epoch died in its second validation batch, after
\* the head had been trained on
AbortedInThirdValidation ==
    /\ pc = "aborted" /\ epochsRun = 3 /\ valsDone = 2
    /\ Count(trace, "val") = 1
    /\ head = 3 * n_train /\ fs.latest = Some(2 * n_train)

\* C15: make_divisible(v, 14) is the largest multiple of 14 that is at most
\* v: a multiple of 14, not above v, with no multiple of 14 between it and
\* v, and v itself when v is a multiple of 14; 1072 gives 1064 and 608
\* gives 602.
RoundsDownToMultiple ==
    md_out # None =>
        LET r == md_out[1]
        IN  /\ r % 14 = 0 /\ r >= 0 /\ r <= md_val
            /\ \A m \in 0 .. md_val : m % 14 = 0 => m <= r
            /\ md_val % 14 = 0 => r = md_val
            /\ md_val = 1072 => r = 1064
            /\ md_val = 608 => r = 602

\* C15 witness: make_divisible(1072) returned 1064
Rounded1072 ==
    pc = "div" /\ md_val = 1072 /\ md_out = Some(1064)

Min(a, b) == IF a < b THEN a ELSE b

\* C16: in a validation pass the two image lists have the same length, at
\* most 64, and hold the first samples in loader order, as many as have been
\* seen up to 64; when the pass ends the length is min(64, number of
\* validation samples); every batch of the pass, also those after the 64th
\* sample, has been fed to the metric.
VisualisationCap ==
    /\ Len(preds) = Len(targets) /\ Len(preds) <= 64
    /\ \A k \in DOMAIN preds : preds[k] = k /\ targets[k] = k
    /\ pc = "val" =>
          /\ Len(preds) = Min(64, Min(vb * batch_size, val_samples))
          /\ metric_n = valsDone * NumBatches(val_samples, batch_size) + vb
    /\ pc = "check" =>
          /\ Len(preds) = Min(64, val_samples)
          /\ vb * batch_size >= val_samples
          /\ metric_n = valsDone * vb

\* C16 witness: the second pass over more than 64 samples has ended, the
\* cap having been reached in the middle of a batch with batches to follow
CapReachedMidBatch ==
    /\ pc = "check" /\ valsDone = 2 /\ batch_size = 6 /\ val_samples = 70
    /\ Len(preds) = 64 /\ vb = 12 /\ metric_n = 24

RECURSIVE LossSum(_, _, _)
LossSum(p, from, to) ==
    IF from > to THEN 0 ELSE LossAt(p, from) + LossSum(p, from + 1, to)

\* C17: every training-loss record holds the sum of the losses of the 100
\* iterations that end at its iteration, to be divided by 100, wherever the
\* epoch boundaries and validation passes fall among those iterations.
LoggedLossIsWindowAverage ==
    \A k \in DOMAIN lossLog :
        LET rec == lossLog[k]
        IN  /\ rec[2] = LossSum(lossPattern, rec[1] - 99, rec[1])
            /\ rec[3] = 100

\* C17 witness: a record whose 100 iterations span three epoch boundaries,
\* with losses that are not all zero
RecordAcrossEpochs ==
    /\ n_train = 30 /\ lossPattern = 1 /\ Len(lossLog) = 2
    /\ lossLog[2][1] = 200 /\ lossLog[2][2] > 0
    /\ lossLog[2][2] # lossLog[1][2]

\* C18: the metric accumulator is never reset: no step lowers the number of
\* batches it has ingested, and when the validation pass of epoch k ends it
\* has ingested (k + 1) * V batches, V being the batches of one pass.
MetricNeverReset ==
    /\ [](pc = "check" =>
            metric_n = (i + 1) * NumBatches(val_samples, batch_size))
    /\ [](pc = "val" =>
            metric_n = i * NumBatches(val_samples, batch_size) + vb)
    /\ [][metric_n' >= metric_n]_vars

\* C18 witness: the third epoch's pass has ended with three passes ingested
ThreePassesIngested ==
    /\ pc = "check" /\ i = 2
    /\ metric_n = 3 * NumValBatches /\ NumValBatches > 0

=============================================================================
